---- MODULE Spec2Model ----
(***************************************************************************)
(* The grammar normalisation pipeline of Lab5/main.py: class Grammar and   *)
(* the chain of five stages that main() applies to one Grammar object.     *)
(*                                                                         *)
(* A symbol is a string.  A production rule (a Python list of symbols) is  *)
(* a sequence of strings.  self.productions (a dict from a non-terminal to *)
(* a list of rules) is a function from its keys to the BAG of the rules in *)
(* the list: a list may hold a rule twice, and the order of the rules in a *)
(* list is observable only where convert_to_cnf numbers its helper         *)
(* non-terminals; there the order is a nondeterministic choice.            *)
(*                                                                         *)
(* There is one Grammar object: every stage assigns to its fields and      *)
(* returns self.  The variables caller and shares tell which of the        *)
(* objects passed to __init__ a field still is, so that an update in place *)
(* of such a field is an update of the caller's object.                    *)
(*                                                                         *)
(* Spec runs the chain, and convert_to_cnf once more, on well-formed       *)
(* grammars over VN = {S, A, X1}; SpecHelperLike does so over              *)
(* VN = {S, A, T_a}; SpecUnchecked does so on arguments that are no        *)
(* grammar; SpecMain is main() on its own grammar.                         *)
(***************************************************************************)
EXTENDS Integers, Sequences, FiniteSets, Bags, TLC

VARIABLES
    non_terminals,   \* self.non_terminals
    terminals,       \* self.terminals
    productions,     \* self.productions
    start_symbol,    \* self.start_symbol
    pc,              \* the number of stages of main()'s chain that have returned
    count,           \* the local counter `count` of convert_to_cnf, Part B
    trace,           \* history: the grammar after construction and after each stage
    caller,          \* the set, set and dict objects that the caller passed to __init__
    shares,          \* the fields of self that still are the caller's objects
    error,           \* the exception raised so far, "none" when there is none
    passes           \* the most passes a while changed loop of the last stage made

vars == <<non_terminals, terminals, productions, start_symbol, pc, count, trace,
          caller, shares, error, passes>>

(***************************************************************************)
(* Bounds of the model.                                                    *)
(***************************************************************************)
\* the number of rules of an input grammar, counted with repetitions
MaxRules == 3
\* the length of the terminal strings whose derivability is compared
MaxStrLen == 3

(***************************************************************************)
(* The input grammars.                                                     *)
(***************************************************************************)
\* the literal "ε" of the source
Eps == "eps"

NTNames == {"S", "A", "X1"}
Terminals == {"a", "b"}
StartName == "S"

\* the right-hand sides an input grammar draws its rules from
RhsPool ==
    { <<>>, <<Eps>>, <<"a">>, <<"S">>, <<"A">>, <<"X1">>,
      <<"A", "b">>, <<"a", "X1">>, <<"A", "X1">>, <<"S", "a">>,
      <<"b", "A", "b">>, <<"a", "b", "A", "b">> }

RulePairs == NTNames \X RhsPool

RECURSIVE BagsUpTo(_)
BagsUpTo(k) ==
    IF k = 0 THEN {EmptyBag}
    ELSE LET smaller == BagsUpTo(k - 1)
         IN  smaller \cup {b (+) SetToBag({p}) : b \in smaller, p \in RulePairs}

\* the dict of an input grammar: every non-terminal is a key
DictOf(b) ==
    [nt \in NTNames |->
        LET rs == {r \in RhsPool : <<nt, r>> \in BagToSet(b)}
        IN  [r \in rs |-> b[<<nt, r>>]]]

\* Arguments that __init__ accepts although they are no grammar: a start
\* symbol that is no non-terminal, a symbol that is declared nowhere, and the
\* literal "ε" next to other symbols.
UndeclaredStart == "Z"
Undeclared == "c"
StartNames == {StartName, UndeclaredStart}

UncheckedPool ==
    { <<Eps>>, <<"a">>, <<"A">>, <<"A", "b">>,
      <<Undeclared>>, <<"a", Undeclared>>, <<"a", Eps>> }

\* the lists of up to k <<non-terminal, rule>> pairs, in any order
RECURSIVE BagsOver(_, _)
BagsOver(pairs, k) ==
    IF k = 0 THEN {EmptyBag}
    ELSE LET smaller == BagsOver(pairs, k - 1)
         IN  smaller \cup {b (+) SetToBag({p}) : b \in smaller, p \in pairs}

\* the dict of such a list: every non-terminal is a key
DictOver(names, pool, b) ==
    [nt \in names |->
        LET rs == {r \in pool : <<nt, r>> \in BagToSet(b)}
        IN  [r \in rs |-> b[<<nt, r>>]]]

\* Grammars with a non-terminal whose name is the name convert_to_cnf would
\* give to the helper of the terminal a.
HelperLikeNames == {"S", "A", "T_a"}

HelperLikePool ==
    { <<Eps>>, <<"a">>, <<"A">>, <<"T_a">>, <<"A", "b">>, <<"a", "T_a">>,
      <<"T_a", "a", "b">>, <<"b", "A", "b">>, <<"A", "T_a", "A">> }

(***************************************************************************)
(* Helpers for lists and dicts.                                            *)
(***************************************************************************)
Symbols(rule) == {rule[i] : i \in 1..Len(rule)}

\* the rules of a list, without repetitions
Rules(bag) == BagToSet(bag)

\* self.productions.get(A, [])
Get(prods, A) == IF A \in DOMAIN prods THEN prods[A] ELSE EmptyBag

\* the order in which a dict or a set is iterated: some enumeration of it
RECURSIVE IterOrder(_)
IterOrder(S) ==
    IF S = {} THEN <<>>
    ELSE LET x == CHOOSE y \in S : TRUE IN <<x>> \o IterOrder(S \ {x})

\* the grammar object as one value
Grammar(nts, ts, prods, start) ==
    [non_terminals |-> nts, terminals |-> ts, productions |-> prods,
     start_symbol |-> start]

Self == Grammar(non_terminals, terminals, productions, start_symbol)

\* __init__ stores the caller's objects themselves in the fields of self
Arguments(nts, ts, prods) ==
    [non_terminals |-> nts, terminals |-> ts, productions |-> prods]

Fields == {"non_terminals", "terminals", "productions"}

\* a stage that would update the objects behind the fields where they are
UpdateInPlace(shared, fields) == shared

\* self.<field> = <a new object>: the fields stop being the caller's objects
Rebind(shared, fields) == shared \ fields

\* the orders in which a dict can be iterated: its keys in any insertion order
RECURSIVE KeyOrders(_)
KeyOrders(S) ==
    IF S = {} THEN {<<>>}
    ELSE UNION {{<<x>> \o rest : rest \in KeyOrders(S \ {x})} : x \in S}

(***************************************************************************)
(* Grammar.__init__ and the start of main().                               *)
(***************************************************************************)
Init ==
    \E b \in BagsUpTo(MaxRules) :
        /\ non_terminals = NTNames
        /\ terminals = Terminals
        /\ productions = DictOf(b)
        /\ start_symbol = StartName
        /\ pc = 0
        /\ count = 0
        /\ trace = <<Grammar(NTNames, Terminals, DictOf(b), StartName)>>
        /\ caller = Arguments(NTNames, Terminals, DictOf(b))
        /\ shares = Fields
        /\ error = "none"
        /\ passes = 0

(***************************************************************************)
(* Stage 1: eliminate_epsilon_productions.                                 *)
(***************************************************************************)
\* mutant of NullableRule: only the rule ["ε"] makes its head nullable
EpsilonRuleOnly(rule, nullable) == rule = <<Eps>>

\* rule == ["ε"] or all(symbol in nullable for symbol in rule)
NullableRule(rule, nullable) ==
    rule = <<Eps>> \/ \A i \in 1..Len(rule) : rule[i] \in nullable

\* one pass of the for loop over self.productions.items()
RECURSIVE NullablePass(_, _, _)
NullablePass(prods, keys, nullable) ==
    IF keys = <<>> THEN nullable
    ELSE LET nt == Head(keys)
             add == /\ nt \notin nullable
                    /\ \E rule \in Rules(prods[nt]) : NullableRule(rule, nullable)
         IN  NullablePass(prods, Tail(keys),
                          IF add THEN nullable \cup {nt} ELSE nullable)

\* the while changed loop
RECURSIVE NullableLoop(_, _, _)
NullableLoop(prods, keys, nullable) ==
    LET next == NullablePass(prods, keys, nullable)
    IN  IF next = nullable THEN nullable ELSE NullableLoop(prods, keys, next)

Nullable(prods) == NullableLoop(prods, IterOrder(DOMAIN prods), {})

\* mutant of NullablePasses: the loop ends after a second pass that adds nothing
RECURSIVE NullablePassesOneMore(_, _, _)
NullablePassesOneMore(prods, keys, nullable) ==
    LET next == NullablePass(prods, keys, nullable)
    IN  IF next = nullable THEN 2
        ELSE 1 + NullablePassesOneMore(prods, keys, next)

\* the number of passes of the while changed loop, the last one included
RECURSIVE NullablePasses(_, _, _)
NullablePasses(prods, keys, nullable) ==
    LET next == NullablePass(prods, keys, nullable)
    IN  IF next = nullable THEN 1 ELSE 1 + NullablePasses(prods, keys, next)

\* mutant of helper: the symbol is included only if it is not nullable
RECURSIVE helper_else_include(_, _, _, _)
helper_else_include(rule, nullable, index, current) ==
    IF index = Len(rule) + 1 THEN {current}
    ELSE IF rule[index] \in nullable
         THEN helper_else_include(rule, nullable, index + 1, current)
         ELSE helper_else_include(rule, nullable, index + 1,
                                  Append(current, rule[index]))

\* the tuples that helper passes to results.add, one copy for every call
RECURSIVE results_add(_, _, _, _)
results_add(rule, nullable, index, current) ==
    IF index = Len(rule) + 1 THEN SetToBag({current})
    ELSE (IF rule[index] \in nullable
          THEN results_add(rule, nullable, index + 1, current)
          ELSE EmptyBag)
         (+) results_add(rule, nullable, index + 1, Append(current, rule[index]))

\* helper(index, current) of _generate_alternatives, as the set results it
\* builds; index counts from 1
RECURSIVE helper(_, _, _, _)
helper(rule, nullable, index, current) ==
    IF index = Len(rule) + 1 THEN {current}
    ELSE (IF rule[index] \in nullable
          THEN helper(rule, nullable, index + 1, current)
          ELSE {})
         \cup helper(rule, nullable, index + 1, Append(current, rule[index]))

generate_alternatives(rule, nullable) == helper(rule, nullable, 1, <<>>)

\* mutant of EmptyAlternative: the test for the start symbol is forgotten
EmptyAlternativeForAll(nt, start) == {<<Eps>>}

\* the empty alternative: ("ε",) for the start symbol, nothing for the others
EmptyAlternative(nt, start) == IF nt = start THEN {<<Eps>>} ELSE {}

\* the set new_rules that the loop builds for one non-terminal
EpsilonNewRules(prods, nt, start, nullable) ==
    LET kept == Rules(prods[nt]) \ {<<Eps>>}
        alts == UNION {generate_alternatives(rule, nullable) : rule \in kept}
    IN  (alts \ {<<>>})
        \cup (IF <<>> \in alts THEN EmptyAlternative(nt, start) ELSE {})

EpsilonProductions(prods, start) ==
    LET nullable == Nullable(prods)
    IN  [nt \in DOMAIN prods |->
            SetToBag(EpsilonNewRules(prods, nt, start, nullable))]

eliminate_epsilon_productions ==
    /\ pc = 0
    /\ productions' = EpsilonProductions(productions, start_symbol)
    /\ passes' \in {NullablePasses(productions, keys, {}) :
                       keys \in KeyOrders(DOMAIN productions)}
    /\ shares' = Rebind(shares, {"productions"})
    /\ UNCHANGED <<non_terminals, terminals, start_symbol, count, caller, error>>
    /\ pc' = 1
    /\ trace' = Append(trace, Self')

(***************************************************************************)
(* Stage 2: eliminate_unit_productions.                                    *)
(***************************************************************************)
\* len(rule) == 1 and rule[0] in self.non_terminals
UnitRule(rule, nts) == Len(rule) = 1 /\ rule[1] \in nts

\* the while changed loop that fills unit_pairs[nt]; a pass adds the targets
\* of the unit rules of the members the pass started with
RECURSIVE UnitPairsLoop(_, _, _)
UnitPairsLoop(prods, nts, pairs) ==
    LET found == {rule[1] : rule \in
                    {r \in UNION {Rules(Get(prods, A)) : A \in pairs} :
                        UnitRule(r, nts)}}
        next == pairs \cup found
    IN  IF next = pairs THEN pairs ELSE UnitPairsLoop(prods, nts, next)

\* mutant of unit_pairs: one pass only, the closure is not transitive
unit_pairs_one_pass(prods, nts, nt) ==
    {nt} \cup {rule[1] : rule \in {r \in Rules(Get(prods, nt)) : UnitRule(r, nts)}}

unit_pairs(prods, nts, nt) == UnitPairsLoop(prods, nts, {nt})

\* the number of passes of the while changed loop of one non-terminal
RECURSIVE UnitPairsPasses(_, _, _)
UnitPairsPasses(prods, nts, pairs) ==
    LET found == {rule[1] : rule \in
                    {r \in UNION {Rules(Get(prods, A)) : A \in pairs} :
                        UnitRule(r, nts)}}
        next == pairs \cup found
    IN  IF next = pairs THEN 1 ELSE 1 + UnitPairsPasses(prods, nts, next)

\* the largest member of a set of numbers, 0 for the empty set
Largest(S) == IF S = {} THEN 0 ELSE CHOOSE n \in S : \A m \in S : m <= n

\* whether the second loop copies a rule: not ["ε"], not a unit rule
UnitKeeps(rule, nts) == rule # <<Eps>> /\ ~UnitRule(rule, nts)

\* the set new_rules that the second loop builds for one non-terminal
UnitNewRules(prods, nts, nt) ==
    {rule \in UNION {Rules(Get(prods, B)) : B \in unit_pairs(prods, nts, nt)} :
        UnitKeeps(rule, nts)}

UnitProductions(prods, nts) ==
    [nt \in nts |-> SetToBag(UnitNewRules(prods, nts, nt))]

eliminate_unit_productions ==
    /\ pc = 1
    /\ productions' = UnitProductions(productions, non_terminals)
    /\ passes' = Largest({UnitPairsPasses(productions, non_terminals, {nt}) :
                              nt \in non_terminals})
    /\ shares' = Rebind(shares, {"productions"})
    /\ UNCHANGED <<non_terminals, terminals, start_symbol, count, caller, error>>
    /\ pc' = 2
    /\ trace' = Append(trace, Self')

(***************************************************************************)
(* Stage 3: eliminate_inaccessible_symbols.                                *)
(***************************************************************************)
\* the while to_process loop; to_process.pop() takes any member
RECURSIVE ReachableLoop(_, _, _, _)
ReachableLoop(prods, nts, reachable_nts, to_process) ==
    IF to_process = {} THEN reachable_nts
    ELSE LET current == CHOOSE x \in to_process : TRUE
             reached == reachable_nts \cup {current}
             found == {symbol \in UNION {Symbols(prod) :
                                         prod \in Rules(Get(prods, current))} :
                          symbol \in nts /\ symbol \notin reached}
         IN  ReachableLoop(prods, nts, reached,
                           (to_process \ {current}) \cup found)

Reachable(prods, nts, start) == ReachableLoop(prods, nts, {}, {start})

\* mutant of AccessibleProductions: the dict is not pruned
AllProductions(prods, reachable_nts) == prods

\* {nt: self.productions[nt] for nt in reachable_nts if nt in self.productions}
AccessibleProductions(prods, reachable_nts) ==
    [nt \in reachable_nts \cap DOMAIN prods |-> prods[nt]]

\* the terminals that occur in the rules of a dict
OccurringTerminals(prods, ts) ==
    {symbol \in UNION {Symbols(rule) :
                       rule \in UNION {Rules(prods[nt]) : nt \in DOMAIN prods}} :
        symbol \in ts}

eliminate_inaccessible_symbols ==
    /\ pc = 2
    /\ LET reachable_nts == Reachable(productions, non_terminals, start_symbol)
           new_productions == AccessibleProductions(productions, reachable_nts)
       IN  /\ productions' = new_productions
           /\ non_terminals' = non_terminals \cap reachable_nts
           /\ terminals' = OccurringTerminals(new_productions, terminals)
    /\ passes' = 0
    /\ shares' = Rebind(shares, Fields)
    /\ UNCHANGED <<start_symbol, count, caller, error>>
    /\ pc' = 3
    /\ trace' = Append(trace, Self')

(***************************************************************************)
(* Stage 4: eliminate_non_productive_symbols.                              *)
(***************************************************************************)
\* all(symbol in self.terminals or symbol in productive or symbol == "ε" ...)
ProductiveRule(rule, ts, productive) ==
    \A i \in 1..Len(rule) :
        rule[i] \in ts \/ rule[i] \in productive \/ rule[i] = Eps

\* one pass of the for loop over self.productions.items()
RECURSIVE ProductivePass(_, _, _, _)
ProductivePass(prods, ts, keys, productive) ==
    IF keys = <<>> THEN productive
    ELSE LET nt == Head(keys)
             add == /\ nt \notin productive
                    /\ \E rule \in Rules(prods[nt]) :
                           ProductiveRule(rule, ts, productive)
         IN  ProductivePass(prods, ts, Tail(keys),
                            IF add THEN productive \cup {nt} ELSE productive)

\* the while changed loop
RECURSIVE ProductiveLoop(_, _, _, _)
ProductiveLoop(prods, ts, keys, productive) ==
    LET next == ProductivePass(prods, ts, keys, productive)
    IN  IF next = productive THEN productive
        ELSE ProductiveLoop(prods, ts, keys, next)

Productive(prods, ts) == ProductiveLoop(prods, ts, IterOrder(DOMAIN prods), {})

\* the number of passes of the while changed loop, the last one included
RECURSIVE ProductivePasses(_, _, _, _)
ProductivePasses(prods, ts, keys, productive) ==
    LET next == ProductivePass(prods, ts, keys, productive)
    IN  IF next = productive THEN 1
        ELSE 1 + ProductivePasses(prods, ts, keys, next)

\* mutant of ValidRules: the rules of a productive non-terminal are not filtered
UnfilteredRules(bag, ts, productive) == bag

\* valid_rules of one non-terminal: the rules of the list that pass the test
ValidRules(bag, ts, productive) ==
    LET valid == {rule \in Rules(bag) : ProductiveRule(rule, ts, productive)}
    IN  [rule \in valid |-> bag[rule]]

\* new_productions: the productive keys whose valid_rules is not empty
ProductiveProductions(prods, ts, productive) ==
    LET keys == {nt \in DOMAIN prods \cap productive :
                    ValidRules(prods[nt], ts, productive) # EmptyBag}
    IN  [nt \in keys |-> ValidRules(prods[nt], ts, productive)]

\* self.non_terminals.intersection(productive)
ProductiveNonTerminals(nts, productive) == nts \cap productive

eliminate_non_productive_symbols ==
    /\ pc = 3
    /\ LET productive == Productive(productions, terminals)
           new_productions ==
               ProductiveProductions(productions, terminals, productive)
       IN  /\ productions' = new_productions
           /\ non_terminals' = ProductiveNonTerminals(non_terminals, productive)
           /\ terminals' = OccurringTerminals(new_productions, terminals)
    /\ passes' \in {ProductivePasses(productions, terminals, keys, {}) :
                       keys \in KeyOrders(DOMAIN productions)}
    /\ shares' = Rebind(shares, Fields)
    /\ UNCHANGED <<start_symbol, count, caller, error>>
    /\ pc' = 4
    /\ trace' = Append(trace, Self')

(***************************************************************************)
(* Stage 5: convert_to_cnf.                                                *)
(***************************************************************************)
\* a list as the bag of its members, and a bag as one of the lists that hold it
RECURSIVE BagOf(_)
BagOf(list) ==
    IF list = <<>> THEN EmptyBag
    ELSE SetToBag({Head(list)}) (+) BagOf(Tail(list))

RECURSIVE ListOf(_)
ListOf(bag) ==
    IF bag = EmptyBag THEN <<>>
    ELSE LET x == CHOOSE y \in BagToSet(bag) : TRUE
         IN  <<x>> \o ListOf(bag (-) SetToBag({x}))

MapList(list, F(_)) == [i \in 1..Len(list) |-> F(list[i])]

\* the while loop that makes the name of a terminal's helper unused
RECURSIVE FreshName(_, _)
FreshName(new_nt, nts) ==
    IF new_nt \in nts THEN FreshName(new_nt \o "_", nts) ELSE new_nt

\* mutant of IsolatedTerminals: len(rule) >= 1 for len(rule) >= 2
TerminalsOfAnyRule(prods, ts) ==
    {symbol \in UNION {Symbols(rule) :
                       rule \in {r \in UNION {Rules(prods[nt]) : nt \in DOMAIN prods} :
                                    Len(r) >= 1}} :
        symbol \in ts}

\* the terminals that Part A meets in rules of length >= 2
IsolatedTerminals(prods, ts) ==
    {symbol \in UNION {Symbols(rule) :
                       rule \in {r \in UNION {Rules(prods[nt]) : nt \in DOMAIN prods} :
                                    Len(r) >= 2}} :
        symbol \in ts}

\* terminal_mapping, filled in the order in which the terminals are met;
\* self.non_terminals grows with every helper
RECURSIVE TerminalMapping(_, _, _)
TerminalMapping(todo, nts, mapping) ==
    IF todo = <<>> THEN mapping
    ELSE LET symbol == Head(todo)
             new_nt == FreshName("T_" \o symbol, nts)
         IN  TerminalMapping(Tail(todo), nts \cup {new_nt},
                             mapping \cup {<<symbol, new_nt>>})

terminal_mapping(prods, nts, ts) ==
    TerminalMapping(IterOrder(IsolatedTerminals(prods, ts)), nts, {})

\* mutant of MappedTo: the helper of some terminal for the helper of this one
MappedToAny(mapping, symbol) == (CHOOSE m \in mapping : TRUE)[2]

\* terminal_mapping[symbol]
MappedTo(mapping, symbol) == (CHOOSE m \in mapping : m[1] = symbol)[2]

\* mutant of IsolateRule: len(rule) > 2 for len(rule) >= 2
IsolateLongRule(rule, ts, mapping) ==
    IF Len(rule) > 2
    THEN [i \in 1..Len(rule) |->
            IF rule[i] \in ts THEN MappedTo(mapping, rule[i]) ELSE rule[i]]
    ELSE rule

\* new_rule of Part A for one rule
IsolateRule(rule, ts, mapping) ==
    IF Len(rule) >= 2
    THEN [i \in 1..Len(rule) |->
            IF rule[i] \in ts THEN MappedTo(mapping, rule[i]) ELSE rule[i]]
    ELSE rule

\* new_prod of Part A
PartA(prods, ts, mapping) ==
    LET helpers == {m[2] : m \in mapping}
        Isolate(rule) == IsolateRule(rule, ts, mapping)
    IN  [nt \in DOMAIN prods \cup helpers |->
            SetToBag({<<m[1]>> : m \in {x \in mapping : x[2] = nt}})
            (+) BagOf(MapList(ListOf(Get(prods, nt)), Isolate))]

\* the name f"X{count}" of a chain helper
XName(k) == "X" \o ToString(k)

\* mutant of ChainLoop: len(temp_rule) >= 2 for len(temp_rule) > 2
RECURSIVE ChainLoopOneTooMany(_, _, _)
ChainLoopOneTooMany(current_nt, temp_rule, c) ==
    IF Len(temp_rule) >= 2
    THEN LET next_nt == XName(c + 1)
             rest == ChainLoopOneTooMany(next_nt, Tail(temp_rule), c + 1)
         IN  [pairs |-> <<<<current_nt, <<Head(temp_rule), next_nt>>>>>> \o rest.pairs,
              count |-> rest.count]
    ELSE [pairs |-> <<<<current_nt, temp_rule>>>>, count |-> c]

\* the while len(temp_rule) > 2 loop: the rules it appends, as <<head, rule>>
RECURSIVE ChainLoop(_, _, _)
ChainLoop(current_nt, temp_rule, c) ==
    IF Len(temp_rule) > 2
    THEN LET next_nt == XName(c + 1)
             rest == ChainLoop(next_nt, Tail(temp_rule), c + 1)
         IN  [pairs |-> <<<<current_nt, <<Head(temp_rule), next_nt>>>>>> \o rest.pairs,
              count |-> rest.count]
    ELSE [pairs |-> <<<<current_nt, temp_rule>>>>, count |-> c]

\* the else branch of Part B for one rule of length > 2
Chain(nt, rule, c) ==
    LET new_nt == XName(c + 1)
        rest == ChainLoop(new_nt, Tail(rule), c + 1)
    IN  [pairs |-> <<<<nt, <<Head(rule), new_nt>>>>>> \o rest.pairs,
         count |-> rest.count]

\* Part B over the rules of length > 2, in the order the loops meet them
RECURSIVE Chains(_, _)
Chains(items, c) ==
    IF items = <<>> THEN [pairs |-> <<>>, count |-> c]
    ELSE LET first == Chain(Head(items)[1], Head(items)[2], c)
             rest == Chains(Tail(items), first.count)
         IN  [pairs |-> first.pairs \o rest.pairs, count |-> rest.count]

\* the rules of length > 2 of a dict, as the bag of their <<head, rule>>
LongRules(prods) ==
    LET long == {p \in UNION {{<<nt, r>> : r \in Rules(prods[nt])} : nt \in DOMAIN prods} :
                    Len(p[2]) > 2}
    IN  [p \in long |-> prods[p[1]][p[2]]]

RECURSIVE Orderings(_)
Orderings(bag) ==
    IF bag = EmptyBag THEN {<<>>}
    ELSE UNION {{<<x>> \o rest : rest \in Orderings(bag (-) SetToBag({x}))} :
                   x \in BagToSet(bag)}

\* the orders in which the two for loops of Part B can meet the long rules:
\* the rules of one key follow each other
RECURSIVE IterOrdersAlong(_, _)
IterOrdersAlong(keys, long) ==
    IF keys = <<>> THEN {<<>>}
    ELSE LET of_key == {p \in BagToSet(long) : p[1] = Head(keys)}
         IN  {first \o rest :
                 first \in Orderings([p \in of_key |-> long[p]]),
                 rest \in IterOrdersAlong(Tail(keys), long)}

\* the keys of a dict that have a long rule
LongHeads(prods) == {p[1] : p \in BagToSet(LongRules(prods))}

\* cnf_productions of Part B
PartB(prods, pairs) ==
    LET Short(nt) == LET bag == Get(prods, nt)
                     IN  [r \in {x \in Rules(bag) : Len(x) <= 2} |-> bag[r]]
        Made(nt) == BagOf(MapList(SelectSeq(pairs, LAMBDA p : p[1] = nt),
                                  LAMBDA p : p[2]))
        heads == {nt \in DOMAIN prods : Short(nt) # EmptyBag}
                     \cup {pairs[i][1] : i \in 1..Len(pairs)}
    IN  [nt \in heads |-> Short(nt) (+) Made(nt)]

\* self.non_terminals.add(new_nt): the set object is changed in place, so
\* the caller's set changes with it while the field still is that object
AddInPlace(args, shared, nts) ==
    IF "non_terminals" \in shared THEN [args EXCEPT !.non_terminals = nts]
    ELSE args

\* one call of convert_to_cnf
ConvertToCnf ==
    /\ LET mapping == terminal_mapping(productions, non_terminals, terminals)
           new_prod == PartA(productions, terminals, mapping)
           with_helpers == non_terminals \cup {m[2] : m \in mapping}
           long == LongRules(new_prod)
       IN  \E keys \in KeyOrders(LongHeads(new_prod)) :
           \E items \in IterOrdersAlong(keys, long) :
               LET made == Chains(items, 0)
               IN  /\ productions' = PartB(new_prod, made.pairs)
                   /\ non_terminals' =
                          with_helpers \cup {XName(k) : k \in 1..made.count}
                   /\ count' = made.count
                   /\ caller' = AddInPlace(caller, shares, with_helpers)
    /\ passes' = 0
    /\ shares' = Rebind(shares, {"productions", "non_terminals"})
    /\ UNCHANGED <<terminals, start_symbol, error>>
    /\ pc' = pc + 1
    /\ trace' = Append(trace, Self')

\* the fifth call of main()'s chain
convert_to_cnf ==
    /\ pc = 4
    /\ ConvertToCnf

\* convert_to_cnf called once more, on the grammar it has returned
convert_to_cnf_again ==
    /\ pc = 5
    /\ ConvertToCnf

Next ==
    \/ eliminate_epsilon_productions
    \/ eliminate_unit_productions
    \/ eliminate_inaccessible_symbols
    \/ eliminate_non_productive_symbols
    \/ convert_to_cnf
    \/ convert_to_cnf_again

Spec == Init /\ [][Next]_vars

\* The same chain on whatever __init__ accepts: the constructor only stores
\* its arguments, so every combination of arguments yields a Grammar object.
Constructed(nts, ts, prods, start) ==
    /\ non_terminals = nts
    /\ terminals = ts
    /\ productions = prods
    /\ start_symbol = start
    /\ pc = 0
    /\ count = 0
    /\ trace = <<Grammar(nts, ts, prods, start)>>
    /\ caller = Arguments(nts, ts, prods)
    /\ shares = Fields
    /\ error = "none"
    /\ passes = 0

InitUnchecked ==
    \E b \in BagsOver(NTNames \X UncheckedPool, MaxRules),
       start \in StartNames :
        Constructed(NTNames, Terminals, DictOver(NTNames, UncheckedPool, b),
                    start)

SpecUnchecked == InitUnchecked /\ [][Next]_vars

\* The chain on the grammar of main().
MainNonTerminals == {"S", "A", "B", "C", "D"}

MainProductions ==
    [nt \in MainNonTerminals |->
        IF nt = "S" THEN SetToBag({<<"a", "B">>, <<"b", "A">>, <<"A">>})
        ELSE IF nt = "A"
        THEN SetToBag({<<"B">>, <<"A", "S">>, <<"a", "B", "A", "B">>, <<"b">>})
        ELSE IF nt = "B"
        THEN SetToBag({<<"b">>, <<"b", "S">>, <<"a", "D">>, <<Eps>>})
        ELSE IF nt = "D" THEN SetToBag({<<"A", "A">>})
        ELSE SetToBag({<<"B", "a">>})]

InitMain == Constructed(MainNonTerminals, Terminals, MainProductions, StartName)

\* main() itself: the five calls of its chain and no other
NextMain ==
    \/ eliminate_epsilon_productions
    \/ eliminate_unit_productions
    \/ eliminate_inaccessible_symbols
    \/ eliminate_non_productive_symbols
    \/ convert_to_cnf

SpecMain == InitMain /\ [][NextMain]_vars

\* The chain on the grammars with a helper-like name.
InitHelperLike ==
    \E b \in BagsOver(HelperLikeNames \X HelperLikePool, MaxRules) :
        Constructed(HelperLikeNames, Terminals,
                    DictOver(HelperLikeNames, HelperLikePool, b), StartName)

SpecHelperLike == InitHelperLike /\ [][Next]_vars

(***************************************************************************)
(* Derivability, for the claims about the language of a grammar.           *)
(***************************************************************************)
\* the strings of at most n terminals that one symbol derives, given the
\* strings lang[nt] known for every key: a key derives lang[nt], a terminal
\* itself, the ε-marker the empty string, anything else nothing
SymbolStrings(g, lang, symbol) ==
    IF symbol \in DOMAIN lang THEN lang[symbol]
    ELSE IF symbol = Eps THEN {<<>>}
    ELSE IF symbol \in g.terminals THEN {<<symbol>>}
    ELSE {}

RECURSIVE RuleStrings(_, _, _, _)
RuleStrings(g, lang, rule, n) ==
    IF rule = <<>> THEN {<<>>}
    ELSE {w \in {u \o v : u \in SymbolStrings(g, lang, Head(rule)),
                          v \in RuleStrings(g, lang, Tail(rule), n)} :
             Len(w) <= n}

RECURSIVE LanguageLoop(_, _, _)
LanguageLoop(g, lang, n) ==
    LET next == [nt \in DOMAIN lang |->
                    UNION {RuleStrings(g, lang, rule, n) :
                              rule \in Rules(g.productions[nt])}]
    IN  IF next = lang THEN lang ELSE LanguageLoop(g, next, n)

\* the terminal strings of length <= n derivable from symbol in grammar g
Language(g, symbol, n) ==
    SymbolStrings(g, LanguageLoop(g, [nt \in DOMAIN g.productions |-> {}], n),
                  symbol)

\* the grammar that main() constructed, and the grammar a stage was applied to
Original == trace[1]
Before == trace[Len(trace) - 1]

(***************************************************************************)
(* The invariants of the data model.                                       *)
(***************************************************************************)
AllRules(g) == UNION {Rules(g.productions[nt]) : nt \in DOMAIN g.productions}

WellFormedRule(g, rule) ==
    /\ Symbols(rule) \subseteq g.non_terminals \cup g.terminals \cup {Eps}
    /\ Eps \in Symbols(rule) => rule = <<Eps>>

Valid(g) ==
    /\ g.non_terminals \cap g.terminals = {}
    /\ DOMAIN g.productions \subseteq g.non_terminals
    /\ \A rule \in AllRules(g) : WellFormedRule(g, rule)
    /\ g.start_symbol \in g.non_terminals

(***************************************************************************)
(* C1.  Language invariance of the full pipeline: after the five stages    *)
(* the start symbol derives exactly the strings of length <= MaxStrLen     *)
(* that it derives in the grammar main() constructed, the empty string     *)
(* included.                                                               *)
(***************************************************************************)
C1_LanguageInvariance ==
    pc = 5 =>
        Language(Self, start_symbol, MaxStrLen)
            = Language(Original, Original.start_symbol, MaxStrLen)

(***************************************************************************)
(* C4.  eliminate_epsilon_productions keeps the language of the start      *)
(* symbol, and when the start symbol is nullable in its input the output   *)
(* has the production start -> ε.                                          *)
(***************************************************************************)
C4_EpsilonKeepsLanguage ==
    pc = 1 =>
        /\ Language(Self, start_symbol, MaxStrLen)
               = Language(Before, Before.start_symbol, MaxStrLen)
        /\ <<>> \in Language(Before, Before.start_symbol, MaxStrLen)
               => <<Eps>> \in Rules(productions[start_symbol])

(***************************************************************************)
(* C6.  eliminate_unit_productions keeps, for every non-terminal, the set  *)
(* of strings of length <= MaxStrLen it derives, the empty string          *)
(* included.                                                               *)
(***************************************************************************)
C6_UnitKeepsStrings ==
    pc = 2 =>
        \A A \in Before.non_terminals :
            Language(Self, A, MaxStrLen) = Language(Before, A, MaxStrLen)

(***************************************************************************)
(* C10. The invariants of the data model hold of the grammar after every   *)
(* stage of the pipeline.                                                  *)
(***************************************************************************)
C10_InvariantsAfterEveryStage == Valid(Original) => Valid(Self)

(***************************************************************************)
(* C2.  CNF post-condition: after the full pipeline every production is    *)
(* one terminal or two non-terminals, except an ε-production of the start  *)
(* symbol.                                                                 *)
(***************************************************************************)
CnfRule(g, rule) ==
    \/ Len(rule) = 1 /\ rule[1] \in g.terminals /\ rule[1] \notin g.non_terminals
    \/ /\ Len(rule) = 2
       /\ \A i \in 1..2 : rule[i] \in g.non_terminals /\ rule[i] \notin g.terminals

C2_CnfPostCondition ==
    pc = 5 =>
        \A nt \in DOMAIN productions :
            \A rule \in Rules(productions[nt]) :
                \/ CnfRule(Self, rule)
                \/ nt = start_symbol /\ rule = <<Eps>>

\* a run in which Part A replaced a terminal and Part B made a chain of two links
C2_Witness ==
    /\ pc = 5
    /\ count >= 2
    /\ \E rule \in AllRules(Before) :
           Len(rule) > 3 /\ Symbols(rule) \cap Before.terminals # {}

(***************************************************************************)
(* C3.  Suffix sharing, as claimed: the number of chain helpers that       *)
(* Part B generates is the number of distinct tails that need one.         *)
(***************************************************************************)
\* the grammar Part B starts from: Part A applied to the grammar before stage 5
AfterPartA ==
    PartA(Before.productions, Before.terminals,
          terminal_mapping(Before.productions, Before.non_terminals,
                           Before.terminals))

\* the tails of length >= 2 of the rules of length > 2
DistinctTails(prods) ==
    UNION {{SubSeq(p[2], i, Len(p[2])) : i \in 2..(Len(p[2]) - 1)} :
              p \in BagToSet(LongRules(prods))}

RECURSIVE LinksNeeded(_)
LinksNeeded(items) ==
    IF items = <<>> THEN 0
    ELSE (Len(Head(items)[2]) - 2) + LinksNeeded(Tail(items))

C5_EpsilonPostCondition ==
    pc = 1 =>
        \A nt \in DOMAIN productions :
            /\ nt # start_symbol =>
                   <<Eps>> \notin Rules(productions[nt])
                   /\ <<>> \notin Rules(productions[nt])
            /\ CopiesIn(<<Eps>>, productions[nt]) <= 1
            /\ \A rule \in Rules(productions[nt]) : productions[nt][rule] = 1

\* a non-start non-terminal had an ε-production or an empty rule, a list held a
\* rule twice or the start symbol got its ε-production from an empty alternative
C5_Witness ==
    /\ pc = 1
    /\ \E nt \in DOMAIN Before.productions \ {start_symbol} :
           Rules(Before.productions[nt]) \cap {<<Eps>>, <<>>} # {}
    /\ <<Eps>> \in Rules(productions[start_symbol])
    /\ <<Eps>> \notin Rules(Before.productions[start_symbol])

(***************************************************************************)
(* C7.  After eliminate_unit_productions the productions of every          *)
(* non-terminal A are the productions, neither unit nor ε, of the members  *)
(* of unit-pairs(A), the least set that holds A and is closed under unit   *)
(* productions; no production of the result is a single non-terminal.      *)
(***************************************************************************)
ClosedUnderUnits(g, T) ==
    \A B \in T :
        \A rule \in Rules(Get(g.productions, B)) :
            (Len(rule) = 1 /\ rule[1] \in g.non_terminals) => rule[1] \in T

LeastUnitPairs(g, A) ==
    {B \in g.non_terminals :
        \A T \in SUBSET g.non_terminals :
            (A \in T /\ ClosedUnderUnits(g, T)) => B \in T}

C7_UnitResult ==
    pc = 2 =>
        /\ DOMAIN productions = non_terminals
        /\ \A A \in non_terminals :
               Rules(productions[A])
                   = {rule \in UNION {Rules(Get(Before.productions, B)) :
                                         B \in LeastUnitPairs(Before, A)} :
                         /\ rule # <<Eps>>
                         /\ ~(Len(rule) = 1 /\ rule[1] \in Before.non_terminals)}
        /\ \A rule \in AllRules(Self) :
               ~(Len(rule) = 1 /\ rule[1] \in non_terminals)

\* a non-terminal got a production through a chain of two unit productions
C7_Witness ==
    /\ pc = 2
    /\ \E A \in non_terminals :
           /\ Cardinality(LeastUnitPairs(Before, A)) = 3
           /\ productions[A] # EmptyBag
           /\ \A rule \in Rules(Before.productions[A]) : rule \notin Rules(productions[A])

(***************************************************************************)
(* C8.  After eliminate_inaccessible_symbols VN is the set of the          *)
(* non-terminals reachable from the start symbol, the productions are      *)
(* those of the reachable non-terminals, unchanged, and VT is the set of   *)
(* the terminals that occur in them.                                       *)
(***************************************************************************)
ClosedUnderRules(g, T) ==
    \A A \in T :
        \A rule \in Rules(Get(g.productions, A)) :
            Symbols(rule) \cap g.non_terminals \subseteq T

LeastReachable(g) ==
    {B \in g.non_terminals :
        \A T \in SUBSET g.non_terminals :
            (g.start_symbol \in T /\ ClosedUnderRules(g, T)) => B \in T}

C8_ReachabilityResult ==
    pc = 3 =>
        /\ non_terminals = LeastReachable(Before)
        /\ DOMAIN productions = LeastReachable(Before) \cap DOMAIN Before.productions
        /\ \A nt \in DOMAIN productions : productions[nt] = Before.productions[nt]
        /\ terminals = {t \in Before.terminals :
                           \E rule \in AllRules(Self) : t \in Symbols(rule)}

\* a non-terminal with productions and a terminal were dropped, and a
\* non-terminal other than the start symbol was kept
C8_Witness ==
    /\ pc = 3
    /\ \E nt \in Before.non_terminals \ non_terminals :
           Before.productions[nt] # EmptyBag
    /\ non_terminals \ {start_symbol} # {}
    /\ terminals # {} /\ terminals # Before.terminals

(***************************************************************************)
(* C9.  After eliminate_non_productive_symbols VN is the set of the        *)
(* productive non-terminals (least fixpoint), no production mentions a     *)
(* non-productive non-terminal, every production of the input that         *)
(* mentions only terminals, ε and productive non-terminals is kept, and VT *)
(* is the set of the terminals that occur in the productions kept.         *)
(***************************************************************************)
ProductiveClosed(g, T) ==
    \A A \in DOMAIN g.productions :
        (\E rule \in Rules(g.productions[A]) :
            Symbols(rule) \subseteq g.terminals \cup {Eps} \cup T) => A \in T

LeastProductive(g) ==
    {B \in g.non_terminals :
        \A T \in SUBSET g.non_terminals : ProductiveClosed(g, T) => B \in T}

C9_ProductivityResult ==
    pc = 4 =>
        LET P == LeastProductive(Before)
            dead == Before.non_terminals \ P
        IN  /\ non_terminals = P
            /\ \A rule \in AllRules(Self) : Symbols(rule) \cap dead = {}
            /\ DOMAIN productions \subseteq P
            /\ \A A \in DOMAIN Before.productions :
                   \A rule \in Rules(Before.productions[A]) :
                       IF Symbols(rule) \subseteq Before.terminals \cup {Eps} \cup P
                       THEN /\ A \in DOMAIN productions
                            /\ CopiesIn(rule, productions[A])
                                   = CopiesIn(rule, Before.productions[A])
                       ELSE CopiesIn(rule, Get(productions, A)) = 0
            /\ terminals = {t \in Before.terminals :
                               \E rule \in AllRules(Self) : t \in Symbols(rule)}

\* a reachable non-terminal with productions was not productive, and a
\* productive non-terminal lost the production that mentions it
C9_Witness ==
    /\ pc = 4
    /\ start_symbol \in non_terminals
    /\ \E nt \in Before.non_terminals \ non_terminals :
           /\ Before.productions[nt] # EmptyBag
           /\ \E rule \in Rules(Before.productions[start_symbol]) :
                  nt \in Symbols(rule) /\ rule \notin Rules(productions[start_symbol])

-----------------------------------------------------------------------------
\* The caller's set, set and dict objects hold what was passed to __init__,
\* and the start symbol is the one that was passed.
AsSupplied ==
    /\ caller = Arguments(Original.non_terminals, Original.terminals,
                          Original.productions)
    /\ start_symbol = Original.start_symbol

-----------------------------------------------------------------------------
\* C12 as the specification states it: a Grammar whose start symbol is not in
\* VN is never constructed: the constructor raises InvalidStartSymbol and no
\* stage runs.
C12_InvalidStartRejected ==
    Original.start_symbol \notin Original.non_terminals
        => error = "InvalidStartSymbol" /\ pc = 0

\* a rule of g has a symbol that is no non-terminal, no terminal and not "ε"
HasUndefinedSymbol(g) ==
    \E rule \in AllRules(g) :
        Symbols(rule) \ (g.non_terminals \cup g.terminals \cup {Eps}) # {}

\* a rule of g has "ε" next to other symbols
HasMalformedEpsilon(g) ==
    \E rule \in AllRules(g) : Eps \in Symbols(rule) /\ Len(rule) > 1

\* C13 as the specification states it: a grammar with an undefined symbol or
\* with ε next to other symbols is rejected: no stage returns a grammar for
\* it, and ε next to other symbols is an error at construction.
C13_IllFormedRejected ==
    LET undefined == HasUndefinedSymbol(Original)
        malformed == HasMalformedEpsilon(Original)
    IN  /\ undefined \/ malformed => pc = 0
        /\ malformed /\ ~undefined => error = "MalformedEpsilonProduction"
        /\ malformed /\ undefined =>
               error \in {"MalformedEpsilonProduction", "UndefinedSymbol"}
        /\ undefined /\ ~malformed => error \in {"none", "UndefinedSymbol"}

-----------------------------------------------------------------------------
-----------------------------------------------------------------------------
\* the terminals of g that stand in a rule of length >= 2
TerminalsInLongRules(g) ==
    {t \in g.terminals :
        \E rule \in AllRules(g) : Len(rule) >= 2 /\ t \in Symbols(rule)}

\* rule with every terminal in it replaced by its helper, if its length is >= 2
WithHelpers(rule, h) ==
    IF Len(rule) >= 2
    THEN [i \in 1..Len(rule) |->
            IF rule[i] \in DOMAIN h THEN h[rule[i]] ELSE rule[i]]
    ELSE rule

\* C15: Part A of convert_to_cnf makes exactly one helper for every terminal
\* that stands in a rule of length >= 2 and for no other; the helper's only
\* rule is helper -> t, also in the result of the stage; every rule of length
\* >= 2 has every such terminal replaced by its helper, and every rule of
\* length 1 is left as it was.
C15_TerminalIsolation ==
    pc = 5 =>
        LET isolated == TerminalsInLongRules(Before)
            helpers == DOMAIN AfterPartA \ Before.non_terminals
        IN  \E h \in [isolated -> helpers] :
                /\ \A t, u \in isolated : h[t] = h[u] => t = u
                /\ \A x \in helpers : \E t \in isolated : h[t] = x
                /\ \A t \in isolated :
                       /\ AfterPartA[h[t]] = SetToBag({<<t>>})
                       /\ h[t] \in non_terminals
                       /\ Get(productions, h[t]) = SetToBag({<<t>>})
                /\ \A nt \in DOMAIN Before.productions :
                       LET old == Before.productions[nt]
                           new == AfterPartA[nt]
                       IN  /\ BagCardinality(new) = BagCardinality(old)
                           /\ \A rule \in Rules(old) :
                                  CopiesIn(WithHelpers(rule, h), new)
                                      = CopiesIn(rule, old)

\* both terminals got a helper, the name T_a was taken by a non-terminal of
\* the input, one rule holds a terminal twice and a rule of length 1 holds a
\* terminal
C15_Witness ==
    /\ pc = 5
    /\ "T_a" \in Before.non_terminals
    /\ {"T_a_", "T_b"} \subseteq non_terminals
    /\ \E rule \in AllRules(Before) :
           Len(rule) >= 2 /\ Cardinality({i \in 1..Len(rule) : rule[i] = "b"}) = 2
    /\ \E rule \in AllRules(Self) : Len(rule) = 1 /\ rule[1] \in terminals

-----------------------------------------------------------------------------
\* the helper names of the last run of convert_to_cnf: those of Part A, taken
\* from terminal_mapping, and those of Part B, X1 .. X<count>
TerminalHelpers ==
    {m[2] : m \in terminal_mapping(Before.productions, Before.non_terminals,
                                    Before.terminals)}

ChainHelpers == {XName(k) : k \in 1..count}

\* C16 as the specification states it: no helper that convert_to_cnf makes has
\* the name of a non-terminal of the stage's input, and no two helpers have
\* the same name: one helper per isolated terminal, one per chain link.
C16_HelpersAreFresh ==
    pc = 5 =>
        /\ (TerminalHelpers \cup ChainHelpers) \cap Before.non_terminals = {}
        /\ TerminalHelpers \cap ChainHelpers = {}
        /\ Cardinality(TerminalHelpers)
               = Cardinality(TerminalsInLongRules(Before))
        /\ Cardinality(ChainHelpers) = count

-----------------------------------------------------------------------------
\* C17 as the specification states it, for the grammar of main(): after the
\* five stages C is no non-terminal, heads no rule and stands in no rule,
\* every rule has one or two symbols, and S derives exactly the terminal
\* strings of length <= 6, the empty string included, that it derived in the
\* grammar main() constructed.
C17_MainScenario ==
    pc = 5 =>
        /\ "C" \notin non_terminals
        /\ "C" \notin DOMAIN productions
        /\ \A rule \in AllRules(Self) :
               "C" \notin Symbols(rule) /\ Len(rule) \in {1, 2}
        /\ Language(Self, start_symbol, 6)
               = Language(Original, Original.start_symbol, 6)

-----------------------------------------------------------------------------
\* rule without the symbols at the positions in drop, the rest in order
RECURSIVE Without(_, _, _)
Without(rule, drop, i) ==
    IF i > Len(rule) THEN <<>>
    ELSE (IF i \in drop THEN <<>> ELSE <<rule[i]>>) \o Without(rule, drop, i + 1)

NullablePositions(rule, nullable) == {i \in 1..Len(rule) : rule[i] \in nullable}

\* C18: for a rule with m positions that hold a nullable symbol,
\* _generate_alternatives adds 2^m tuples to results, one for every set of
\* such positions: the rule without the symbols at these positions, the others
\* in order; the set it returns is the set of these tuples.  Stated for the
\* rules of the grammar stage 1 was applied to and every set of non-terminals
\* as the nullable set.
C18_AlternativesArePowerset ==
    pc = 1 =>
        \A rule \in AllRules(Before), nullable \in SUBSET Before.non_terminals :
            LET positions == NullablePositions(rule, nullable)
                added == results_add(rule, nullable, 1, <<>>)
                subsequences == {Without(rule, drop, 1) : drop \in SUBSET positions}
            IN  /\ BagCardinality(added) = 2 ^ Cardinality(positions)
                /\ \A alt \in subsequences :
                       CopiesIn(alt, added) =
                           Cardinality({drop \in SUBSET positions :
                                           Without(rule, drop, 1) = alt})
                /\ BagToSet(added) = subsequences
                /\ generate_alternatives(rule, nullable) = subsequences

\* stage 1 has met a rule with three nullable positions, two of them with the
\* same symbol, so that the eight tuples added are fewer than eight alternatives
C18_Witness ==
    /\ pc = 1
    /\ LET nullable == Nullable(Before.productions)
       IN  \E rule \in AllRules(Before) :
               /\ Cardinality(NullablePositions(rule, nullable)) = 3
               /\ BagCardinality(results_add(rule, nullable, 1, <<>>)) = 8
               /\ Cardinality(generate_alternatives(rule, nullable)) < 8
               /\ generate_alternatives(rule, nullable) \ {<<>>}
                      \subseteq Rules(productions["S"])

-----------------------------------------------------------------------------
\* N holds every key of prods that has the rule ε or a rule whose symbols are
\* all in N
ClosedUnderNullable(prods, N) ==
    \A A \in DOMAIN prods :
        (\E rule \in Rules(prods[A]) :
            rule = <<Eps>> \/ Symbols(rule) \subseteq N) => A \in N

\* the set nullable after each pass of the while changed loop
RECURSIVE NullableAfterPasses(_, _, _)
NullableAfterPasses(prods, keys, nullable) ==
    LET next == NullablePass(prods, keys, nullable)
    IN  IF next = nullable THEN <<next>>
        ELSE <<next>> \o NullableAfterPasses(prods, keys, next)

\* C19: the set nullable that eliminate_epsilon_productions has computed is
\* the least fixpoint: a non-terminal is in it exactly if it has the rule ε or
\* a rule whose symbols are all in it, it is part of every set closed under
\* this, and its members are the non-terminals that derive the empty string;
\* it holds no terminal; and in whatever order the dict is iterated, the set
\* only grows from pass to pass and ends as this same set.
C19_NullableLeastFixpoint ==
    pc = 1 =>
        LET prods == Before.productions
            nullable == Nullable(prods)
        IN  /\ \A A \in DOMAIN prods :
                   A \in nullable <=>
                       \E rule \in Rules(prods[A]) :
                           rule = <<Eps>> \/ Symbols(rule) \subseteq nullable
            /\ \A N \in SUBSET (DOMAIN prods) :
                   ClosedUnderNullable(prods, N) => nullable \subseteq N
            /\ LET derived ==
                       LanguageLoop(Before, [nt \in DOMAIN prods |-> {}], 0)
               IN  \A A \in DOMAIN prods :
                       A \in nullable <=> <<>> \in derived[A]
            /\ nullable \subseteq Before.non_terminals
            /\ nullable \cap Before.terminals = {}
            /\ \A keys \in KeyOrders(DOMAIN prods) :
                   LET sets == NullableAfterPasses(prods, keys, {})
                   IN  /\ \A i \in 1..(Len(sets) - 1) :
                              sets[i] \subseteq sets[i + 1]
                       /\ sets[Len(sets)] = nullable

\* stage 1 has run on a grammar where one non-terminal has the rule ε, a
\* second is nullable through the first and a third through the second, and
\* the loop found one of them per pass
C19_Witness ==
    /\ pc = 1
    /\ passes = 4
    /\ Nullable(Before.productions) = Before.non_terminals
    /\ Cardinality({A \in DOMAIN Before.productions :
                       <<Eps>> \in Rules(Before.productions[A])}) = 1

-----------------------------------------------------------------------------
\* C20 as the specification states it: no while changed loop of a stage makes
\* more than |VN| passes, the last pass, which adds nothing, included.
C20_AtMostVNPasses ==
    pc \in {1, 2, 4} => passes <= Cardinality(Before.non_terminals)

\* C20, amended: the nullable loop and the productive loop make at most
\* |VN| + 1 passes, the last one included, and the unit-pairs loop of a
\* non-terminal at most |VN|; every loop makes at least one pass.
C20_PassesBounded ==
    /\ pc \in {1, 4} =>
           passes \in 1..(Cardinality(Before.non_terminals) + 1)
    /\ pc = 2 =>
           \/ passes \in 1..Cardinality(Before.non_terminals)
           \/ Before.non_terminals = {} /\ passes = 0

\* the productive loop has found one non-terminal per pass and has made one
\* pass more than there are non-terminals
C20_Witness ==
    /\ pc = 4
    /\ passes = Cardinality(Before.non_terminals) + 1
    /\ passes >= 3

-----------------------------------------------------------------------------
\* the non-terminals and heads of g, and its start symbol
Heads(g) == g.non_terminals \cup DOMAIN g.productions

\* the members of Heads(g) that the start symbol reaches through the rules
\* of g: those in every set that holds the start symbol and, with a head,
\* the heads in its rules
ReachableFromStart(g) ==
    LET all == Heads(g) \cup {g.start_symbol}
    IN  {B \in Heads(g) :
            \A T \in SUBSET all :
                (/\ g.start_symbol \in T
                 /\ \A A \in T :
                        \A rule \in Rules(Get(g.productions, A)) :
                            Symbols(rule) \cap all \subseteq T)
                    => B \in T}

\* the members of Heads(g) that derive a terminal string: those in every set
\* that holds each head with a rule over terminals, ε and the set
DerivingHeads(g) ==
    {B \in Heads(g) :
        \A T \in SUBSET Heads(g) :
            (\A A \in DOMAIN g.productions :
                (\E rule \in Rules(g.productions[A]) :
                    Symbols(rule) \subseteq g.terminals \cup {Eps} \cup T)
                    => A \in T)
                => B \in T}

\* C21 as the specification states it: after the five stages every
\* non-terminal of the result and every head of a rule of the result is
\* reachable from the start symbol through the rules of the result, and
\* derives a terminal string.
C21_NoUselessSymbols ==
    pc = 5 =>
        /\ Heads(Self) \subseteq ReachableFromStart(Self)
        /\ Heads(Self) \subseteq DerivingHeads(Self)

=============================================================================
